---- MODULE Spec2Model ----
(***************************************************************************)
(* State-machine model of src/make_images.py (main and the figure steps    *)
(* it calls) and of modules/get_ancillary.py (the survey fetches).         *)
(*                                                                         *)
(* One behaviour is one call of main for one source.  Angles are integers  *)
(* in arcsec (6 arcmin = 360, the 5% margin 2 * E * 1.05 = E * 21 / 10 is  *)
(* exact because every cell size is a multiple of 10 arcsec).  Significance*)
(* values are in tenths (snr_range [2,3] = <<20, 30>>).  Intensities are   *)
(* even integers, so that the mean of the two middle values of a median is *)
(* an integer.  A header is identified by the survey it was fetched from.  *)
(***************************************************************************)
EXTENDS Integers, Sequences, FiniteSets, TLC

VARIABLES
    pc,          \* position of main
    surveys0,    \* the survey list as the caller passed it (never assigned)
    surveys,     \* the list object main works on (line 470, 480, 489 mutate it)
    outcome,     \* what each survey's archive answers in this run
    products,    \* SoFiA product files on disk: snr, mom0, mom1, pv
    existing,    \* output figure files on disk when main is called
    figures,     \* output figure files on disk now
    written,     \* figure files main saved (fig.savefig) in this run
    contours,    \* intensity contour levels drawn in each saved figure
    fetched,     \* fetch requests made so far: survey and field of view
    source,      \* catalog row: x, y, x_min, x_max, y_min, y_max
    cube_params, \* cellsize (arcsec / pixel)
    cubelet,     \* pixels of the snr, mom0 and mom1 products, and where each
                 \* pixel of the primary grid falls on them
    HIlowest,    \* base contour (0 until computed)
    opt_view,    \* field of view, arcsec
    opt_head,    \* primary registration grid: None or the survey of the header
    i,           \* position of the SkyView loop (line 493)
    run,         \* 1 in the first call of main for the source, 2 in the second
    outcome1,    \* what each survey's archive answered in the first call
    mom1_image   \* pixels of the velocity map drawn by make_mom1 (<<>> if none)

vars == <<pc, surveys0, surveys, outcome, products, existing, figures, written,
          contours, fetched, source, cube_params, cubelet, HIlowest, opt_view,
          opt_head, i, run, outcome1, mom1_image>>

(***************************************************************************)
(* Bounds of the model.                                                    *)
(***************************************************************************)
MaxSurveys == 2      \* longest survey list passed to main
MaxExisting == 1     \* most figure files already on disk when main is called
MaxPix == 2          \* largest pixel coordinate of a bounding box
MaxCubePix == 2      \* pixels of a generated cubelet
MaxGridPix == 2      \* pixels of a generated primary grid

(***************************************************************************)
(* Program constants.                                                      *)
(***************************************************************************)
DefaultOptView == 360    \* opt_view=6*u.arcmin
HstOptView == 40         \* hst_opt_view = 40 * u.arcsec
NumLevels == 10          \* np.arange(10)
MarginNum == 21          \* 2 * 1.05 = 21 / 10
MarginDen == 10
snr_range == <<20, 30>>  \* snr_range=[2,3], in tenths

None == "None"

SkyViewSurveys == {"DSS2 Blue", "WISE 3.4"}
SurveyNames == {"hst", "panstarrs", "decals"} \cup SkyViewSurveys
ProductFiles == {"snr", "mom0", "mom1", "pv"}

Range(s) == {s[k] : k \in 1..Len(s)}

\* list.remove(x): drops the first occurrence of x
Remove(s, x) ==
    LET first == CHOOSE k \in 1..Len(s) : s[k] = x /\ \A j \in 1..(k - 1) : s[j] # x
    IN  [k \in 1..(Len(s) - 1) |-> IF k < first THEN s[k] ELSE s[k + 1]]

\* survey.replace(" ", "").lower()
survey_nospace(survey) ==
    CASE survey = "DSS2 Blue" -> "dss2blue"
      [] survey = "WISE 3.4" -> "wise3.4"
      [] OTHER -> survey

\* outfile of make_overlay and make_color_im, without directory, id and suffix
OverlayFile(survey) ==
    CASE survey = "hst" -> "mom0hst"
      [] survey = "panstarrs" -> "mom0panstarrs"
      [] survey = "decals" -> "mom0decals"
      [] survey_nospace(survey) = "dss2blue" -> "mom0dss2blue"
      [] survey_nospace(survey) = "wise3.4" -> "mom0wise3.4"

GridFiles == {"mom0hi", "snr", "mom1"}
FigureFiles(list) == {OverlayFile(s) : s \in Range(list)} \cup GridFiles \cup {"pv"}

(***************************************************************************)
(* get_ancillary.py: what a fetch can answer.                              *)
(*   ok      an image and its header                                       *)
(*   none    no image (empty path list, falsy hst result)                  *)
(*   http    urllib HTTPError                                              *)
(*   invalid ValueError of astroquery for a survey name it does not know   *)
(***************************************************************************)
HstOutcomes == {"ok", "none"}
PanstarrsOutcomes == {"ok", "none", "http"}
DecalsOutcomes == {"ok", "http"}
SkyviewOutcomes == {"ok", "none", "http", "invalid"}

FetchOutcomes(survey) ==
    CASE survey = "hst" -> HstOutcomes
      [] survey = "panstarrs" -> PanstarrsOutcomes
      [] survey = "decals" -> DecalsOutcomes
      [] OTHER -> SkyviewOutcomes

(***************************************************************************)
(* Base contour, lines 413-414.                                            *)
(***************************************************************************)
RECURSIVE Insert(_, _)
Insert(v, s) ==
    IF s = <<>> THEN <<v>>
    ELSE IF v <= Head(s) THEN <<v>> \o s
    ELSE <<Head(s)>> \o Insert(v, Tail(s))

RECURSIVE Sort(_)
Sort(s) == IF s = <<>> THEN <<>> ELSE Insert(Head(s), Sort(Tail(s)))

\* np.median of a non-empty array
Median(s) ==
    LET t == Sort(s)
        n == Len(t)
    IN  IF n % 2 = 1 THEN t[(n + 1) \div 2]
        ELSE (t[n \div 2] + t[n \div 2 + 1]) \div 2

\* hdulist_hi[0].data[(snr > snr_range[0]) * (snr < snr_range[1])]
RECURSIVE Selected_Closed(_, _, _)
Selected_Closed(snr, hi, band) ==
    IF snr = <<>> THEN <<>>
    ELSE (IF Head(snr) >= band[1] /\ Head(snr) <= band[2] THEN <<Head(hi)>> ELSE <<>>)
         \o Selected_Closed(Tail(snr), Tail(hi), band)
RECURSIVE Selected(_, _, _)
Selected(snr, hi, band) ==
    IF snr = <<>> THEN <<>>
    ELSE (IF Head(snr) > band[1] /\ Head(snr) < band[2] THEN <<Head(hi)>> ELSE <<>>)
         \o Selected(Tail(snr), Tail(hi), band)

BaseContour(snr, hi, band) == Median(Selected(snr, hi, band))

\* the open() of line 413 finds both files
ContourInputsExist_SnrOnly == "snr" \in products
ContourInputsExist == "snr" \in products /\ "mom0" \in products

(***************************************************************************)
(* Field of view, lines 437-442.                                           *)
(***************************************************************************)
Max(S) == CHOOSE m \in S : \A v \in S : v <= m

Xsize == <<(source.x_max - source.x) * cube_params.cellsize,
           (source.x - source.x_min) * cube_params.cellsize>>
Ysize == <<(source.y_max - source.y) * cube_params.cellsize,
           (source.y - source.y_min) * cube_params.cellsize>>

\* np.any(size > view / 2)
AnyAbove(size, view) == \E k \in 1..2 : 2 * size[k] > view

\* np.max([Xsize, Ysize]) * 2 * 1.05
Enlarged(xs, ys) == (Max(Range(xs) \cup Range(ys)) * MarginNum) \div MarginDen

ResolveFov_XOnly(xs, ys, view) ==
    IF AnyAbove(xs, view) THEN Enlarged(xs, ys) ELSE view
ResolveFov(xs, ys, view) ==
    IF AnyAbove(xs, view) \/ AnyAbove(ys, view) THEN Enlarged(xs, ys) ELSE view

\* lines 456-458
hst_opt_view_Fixed == HstOptView
hst_opt_view ==
    IF AnyAbove(Xsize, HstOptView) \/ AnyAbove(Ysize, HstOptView)
    THEN Enlarged(Xsize, Ysize) ELSE HstOptView

(***************************************************************************)
(* Figure steps.                                                           *)
(***************************************************************************)
\* base_contour * 2 ** np.arange(10)
ContourLevels_Times(base_contour) == {base_contour * 2 * k : k \in 0..(NumLevels - 1)}
ContourLevels(base_contour) == {base_contour * 2 ^ k : k \in 0..(NumLevels - 1)}

\* levels=[base_contour, ] of make_snr
SnrLevels(base_contour) == {base_contour}

\* not os.path.isfile(outfile)
OutfileMissing_Always(outfile) == TRUE
OutfileMissing(outfile) == outfile \notin figures

\* fig.savefig(outfile), with the intensity contour levels the figure draws
SaveFig(outfile, levels) ==
    /\ figures' = figures \cup {outfile}
    /\ written' = written \cup {outfile}
    /\ contours' = [f \in DOMAIN contours \cup {outfile} |->
                      IF f = outfile THEN levels ELSE contours[f]]

\* fig.savefig(outfile) of a figure without intensity contours
SaveFigPlain(outfile) ==
    /\ figures' = figures \cup {outfile}
    /\ written' = written \cup {outfile}
    /\ UNCHANGED contours

NoFig == UNCHANGED <<figures, written, contours>>

\* make_overlay raises TypeError at WCS(opt[0].header) when opt is None
make_overlay_raises(survey, opt) ==
    /\ OutfileMissing(OverlayFile(survey))
    /\ "mom0" \in products
    /\ opt = None

make_overlay(survey, opt) ==
    IF OutfileMissing(OverlayFile(survey)) /\ "mom0" \in products
    THEN SaveFig(OverlayFile(survey), ContourLevels(HIlowest))
    ELSE NoFig

\* make_color_im raises at reproject_interp(hdulist_hi, opt_head) when
\* opt_head is None
make_color_im_raises(survey, head) ==
    /\ OutfileMissing(OverlayFile(survey))
    /\ head = None

make_color_im_NoCheck(survey, head) ==
    SaveFig(OverlayFile(survey), ContourLevels(HIlowest))
make_color_im(survey, head) ==
    IF OutfileMissing(OverlayFile(survey))
    THEN SaveFig(OverlayFile(survey), ContourLevels(HIlowest))
    ELSE NoFig

(***************************************************************************)
(* Velocity map, lines 229-250.  A pixel is [nan, v]: v counts when nan is *)
(* FALSE.                                                                  *)
(***************************************************************************)
Invalid == [nan |-> TRUE, v |-> 0]

\* (mom1[0].data[i][j] * u.m / u.s).to(u.km / u.s).value
ToKms(data) == [k \in 1..Len(data) |-> data[k] \div 1000]

\* reproject_interp(hdulist, opt_head): a pixel of the target grid takes the
\* value of the product pixel it falls on, NaN outside the footprint
Reproject(data, onto) ==
    [p \in 1..Len(onto) |->
        IF onto[p] = 0 THEN Invalid ELSE [nan |-> FALSE, v |-> data[onto[p]]]]

\* mom1_reprojected[hi_reprojected < HIlowest] = np.nan
MaskBelow_OrEqual(mom1_reprojected, hi_reprojected, lowest) ==
    [p \in DOMAIN mom1_reprojected |->
        IF ~hi_reprojected[p].nan /\ hi_reprojected[p].v <= lowest
        THEN Invalid ELSE mom1_reprojected[p]]
MaskBelow(mom1_reprojected, hi_reprojected, lowest) ==
    [p \in DOMAIN mom1_reprojected |->
        IF ~hi_reprojected[p].nan /\ hi_reprojected[p].v < lowest
        THEN Invalid ELSE mom1_reprojected[p]]

VelocityMap ==
    MaskBelow(Reproject(ToKms(cubelet.mom1), cubelet.onto),
              Reproject(cubelet.mom0, cubelet.onto), HIlowest)

\* an exception leaves main: nothing else is assigned
Raise ==
    /\ pc' = "raised"
    /\ UNCHANGED <<surveys, figures, written, contours, HIlowest, opt_view, opt_head, i,
                 mom1_image>>

Fixed == <<surveys0, outcome, products, existing, source, cube_params, cubelet,
           run, outcome1>>

(***************************************************************************)
(* main                                                                    *)
(***************************************************************************)
\* lines 411-418
ComputeBaseContour ==
    /\ pc = "contour"
    /\ IF ContourInputsExist
       THEN /\ HIlowest' = BaseContour(cubelet.snr, cubelet.mom0, snr_range)
            /\ pc' = "fov"
       ELSE /\ pc' = "returned"
            /\ UNCHANGED HIlowest
    /\ UNCHANGED <<surveys, figures, written, contours, fetched, opt_view, opt_head, i,
                   mom1_image>>
    /\ UNCHANGED Fixed

\* lines 430-443
ComputeFov ==
    /\ pc = "fov"
    /\ opt_view' = ResolveFov(Xsize, Ysize, opt_view)
    /\ pc' = "hst"
    /\ UNCHANGED <<surveys, figures, written, contours, fetched, HIlowest, opt_head, i,
                   mom1_image>>
    /\ UNCHANGED Fixed

\* lines 455-470
HstStep ==
    /\ pc = "hst"
    /\ IF "hst" \in Range(surveys) \/ "HST" \in Range(surveys)
       THEN LET hst_opt == IF outcome["hst"] = "ok" THEN "hst" ELSE None
            IN  /\ fetched' = Append(fetched, [survey |-> "hst", view |-> hst_opt_view])
                /\ IF surveys[1] = "hst" /\ hst_opt = None
                   THEN Raise
                   ELSE /\ IF hst_opt # None THEN make_overlay("hst", hst_opt) ELSE NoFig
                        /\ IF surveys[1] = "hst"
                           THEN opt_head' = hst_opt /\ opt_view' = hst_opt_view
                           ELSE UNCHANGED <<opt_head, opt_view>>
                        /\ surveys' = Remove(surveys, "hst")
                        /\ pc' = "panstarrs"
                        /\ UNCHANGED <<HIlowest, i, mom1_image>>
       ELSE /\ pc' = "panstarrs"
            /\ UNCHANGED <<surveys, figures, written, contours, fetched, HIlowest,
                           opt_view, opt_head, i, mom1_image>>
    /\ UNCHANGED Fixed

\* lines 473-480
PanstarrsStep ==
    /\ pc = "panstarrs"
    /\ IF "panstarrs" \in Range(surveys)
       THEN LET pstar_head == IF outcome["panstarrs"] = "ok" THEN "panstarrs" ELSE None
            IN  /\ fetched' = Append(fetched, [survey |-> "panstarrs", view |-> opt_view])
                /\ IF outcome["panstarrs"] = "http"
                   THEN Raise
                   ELSE /\ IF pstar_head # None
                           THEN make_color_im("panstarrs", pstar_head)
                           ELSE NoFig
                        /\ IF surveys[1] = "panstarrs"
                           THEN opt_head' = pstar_head
                           ELSE UNCHANGED opt_head
                        /\ surveys' = Remove(surveys, "panstarrs")
                        /\ pc' = "decals"
                        /\ UNCHANGED <<HIlowest, opt_view, i, mom1_image>>
       ELSE /\ pc' = "decals"
            /\ UNCHANGED <<surveys, figures, written, contours, fetched, HIlowest,
                           opt_view, opt_head, i, mom1_image>>
    /\ UNCHANGED Fixed

\* lines 483-489
DecalsStep ==
    /\ pc = "decals"
    /\ IF "decals" \in Range(surveys)
       THEN LET decals_head == IF outcome["decals"] = "ok" THEN "decals" ELSE None
            IN  /\ fetched' = Append(fetched, [survey |-> "decals", view |-> opt_view])
                /\ IF make_color_im_raises("decals", decals_head)
                   THEN Raise
                   ELSE /\ make_color_im("decals", decals_head)
                        /\ IF surveys[1] = "decals"
                           THEN opt_head' = decals_head
                           ELSE UNCHANGED opt_head
                        /\ surveys' = Remove(surveys, "decals")
                        /\ pc' = "skyview"
                        /\ UNCHANGED <<HIlowest, opt_view, i, mom1_image>>
       ELSE /\ pc' = "skyview"
            /\ UNCHANGED <<surveys, figures, written, contours, fetched, HIlowest,
                           opt_view, opt_head, i, mom1_image>>
    /\ UNCHANGED Fixed

\* lines 492-505, one iteration of the loop
SkyviewStep ==
    /\ pc = "skyview"
    /\ IF i <= Len(surveys)
       THEN LET survey == surveys[i]
                overlay_image == IF outcome[survey] = "ok" THEN survey ELSE None
            IN  /\ fetched' = Append(fetched, [survey |-> survey, view |-> opt_view])
                /\ IF outcome[survey] \in {"http", "invalid"}
                   THEN \* except ValueError, except HTTPError
                        /\ i' = i + 1
                        /\ NoFig
                        /\ UNCHANGED <<pc, surveys, HIlowest, opt_view, opt_head, mom1_image>>
                   ELSE IF \/ make_overlay_raises(survey, overlay_image)
                           \/ (surveys[1] = survey /\ overlay_image = None)
                   THEN Raise
                   ELSE /\ make_overlay(survey, overlay_image)
                        /\ IF surveys[1] = survey
                           THEN opt_head' = overlay_image
                           ELSE UNCHANGED opt_head
                        /\ i' = i + 1
                        /\ UNCHANGED <<pc, surveys, HIlowest, opt_view, mom1_image>>
       ELSE /\ pc' = "grid"
            /\ UNCHANGED <<surveys, figures, written, contours, fetched, HIlowest,
                           opt_view, opt_head, i, mom1_image>>
    /\ UNCHANGED Fixed

GridGate_SkipPv ==
    /\ pc = "grid"
    /\ pc' = IF opt_head # None THEN "mom0hi" ELSE "done"
    /\ UNCHANGED <<surveys, figures, written, contours, fetched, HIlowest,
                   opt_view, opt_head, i, mom1_image>>
    /\ UNCHANGED Fixed

\* line 508
GridGate ==
    /\ pc = "grid"
    /\ pc' = IF opt_head # None THEN "mom0hi" ELSE "pv"
    /\ UNCHANGED <<surveys, figures, written, contours, fetched, HIlowest,
                   opt_view, opt_head, i, mom1_image>>
    /\ UNCHANGED Fixed

\* line 509, make_mom0
MakeMom0 ==
    /\ pc = "mom0hi"
    /\ IF OutfileMissing("mom0hi") /\ "mom0" \in products
       THEN SaveFig("mom0hi", ContourLevels(HIlowest))
       ELSE NoFig
    /\ pc' = "snr"
    /\ UNCHANGED <<surveys, fetched, HIlowest, opt_view, opt_head, i, mom1_image>>
    /\ UNCHANGED Fixed

\* line 510, make_snr
MakeSnr ==
    /\ pc = "snr"
    /\ IF OutfileMissing("snr") /\ "snr" \in products
       THEN SaveFig("snr", SnrLevels(HIlowest))
       ELSE NoFig
    /\ pc' = "mom1"
    /\ UNCHANGED <<surveys, fetched, HIlowest, opt_view, opt_head, i, mom1_image>>
    /\ UNCHANGED Fixed

\* lines 511-512, make_mom1
MakeMom1 ==
    /\ pc = "mom1"
    /\ IF OutfileMissing("mom1") /\ "mom1" \in products
       THEN /\ SaveFigPlain("mom1")
            /\ mom1_image' = VelocityMap
       ELSE /\ NoFig
            /\ UNCHANGED mom1_image
    /\ pc' = "pv"
    /\ UNCHANGED <<surveys, fetched, HIlowest, opt_view, opt_head, i>>
    /\ UNCHANGED Fixed

\* lines 515-521, make_pv and return True
MakePv ==
    /\ pc = "pv"
    /\ IF OutfileMissing("pv") /\ "pv" \in products
       THEN SaveFigPlain("pv")
       ELSE NoFig
    /\ pc' = "done"
    /\ UNCHANGED <<surveys, fetched, HIlowest, opt_view, opt_head, i, mom1_image>>
    /\ UNCHANGED Fixed

Next ==
    \/ ComputeBaseContour
    \/ ComputeFov
    \/ HstStep
    \/ PanstarrsStep
    \/ DecalsStep
    \/ SkyviewStep
    \/ GridGate
    \/ MakeMom0
    \/ MakeSnr
    \/ MakeMom1
    \/ MakePv

(***************************************************************************)
(* Inputs.                                                                 *)
(***************************************************************************)
\* survey lists without repetition, at most n long
SurveyLists(n) ==
    {s \in UNION {[1..k -> SurveyNames] : k \in 0..n} :
        \A a, b \in 1..Len(s) : a # b => s[a] # s[b]}

Outcomes(list) ==
    {f \in [Range(list) -> SkyviewOutcomes] : \A s \in Range(list) : f[s] \in FetchOutcomes(s)}

ExistingSets(list) ==
    {e \in SUBSET FigureFiles(list) : Cardinality(e) <= MaxExisting}

\* snr in tenths, mom0 in even integers; pixels at 2.0 and 3.0 are on the
\* edge of the band
\* mom1 in m/s; onto[p] is the product pixel the p-th pixel of the primary
\* grid falls on, 0 when it is outside the footprint
Cubelets ==
    { [snr |-> <<10, 20, 25, 28, 30, 40>>, mom0 |-> <<2, 4, 6, 10, 12, 20>>,
       mom1 |-> <<1000, 2000, 3000, 4000, 5000, 6000>>, onto |-> <<0, 1, 3, 4, 6>>],
      [snr |-> <<21, 24, 29, 35>>, mom0 |-> <<12, 4, 6, 30>>,
       mom1 |-> <<7000, 5000, 3000, 1000>>, onto |-> <<2, 3, 0, 1>>] }

\* every cubelet of MaxCubePix pixels whose band selects a pixel, seen from
\* every primary grid of MaxGridPix pixels
PixelCubelets ==
    {c \in [snr : [1..MaxCubePix -> {20, 25, 30}],
            mom0 : [1..MaxCubePix -> {2, 6, 10}],
            mom1 : {[k \in 1..MaxCubePix |-> 5000 * k]},
            onto : [1..MaxGridPix -> 0..MaxCubePix]] :
        \E k \in 1..MaxCubePix : c.snr[k] = 25}

Box(xmin, x, xmax, ymin, y, ymax) ==
    [x_min |-> xmin, x |-> x, x_max |-> xmax, y_min |-> ymin, y |-> y, y_max |-> ymax]

\* a compact source (extent 10 arcsec) and an extended one (extent 300 arcsec)
MainGeometries ==
    { [source |-> Box(0, 1, 2, 0, 1, 2), cellsize |-> 10],
      [source |-> Box(0, 0, 2, 0, 1, 1), cellsize |-> 150] }

CellSizes == {10, 60, 90, 150}

\* every bounding box in 0..MaxPix, its center inside the box or not
Boxes ==
    {b \in [{"x_min", "x", "x_max", "y_min", "y", "y_max"} -> 0..MaxPix] :
        b.x_min <= b.x_max /\ b.y_min <= b.y_max}

FovSurveyLists == {<<"hst", "DSS2 Blue">>, <<"panstarrs", "decals">>}

InitLocals ==
    /\ pc = "contour"
    /\ surveys = surveys0
    /\ figures = existing
    /\ written = {}
    /\ contours = <<>>
    /\ fetched = <<>>
    /\ HIlowest = 0
    /\ opt_view = DefaultOptView
    /\ opt_head = None
    /\ i = 1
    /\ run = 1
    /\ outcome1 = outcome
    /\ mom1_image = <<>>

Init ==
    /\ surveys0 \in SurveyLists(MaxSurveys)
    /\ outcome \in Outcomes(surveys0)
    /\ products \in SUBSET ProductFiles
    /\ existing \in ExistingSets(surveys0)
    /\ \E g \in MainGeometries :
          /\ source = g.source
          /\ cube_params = [cellsize |-> g.cellsize]
    /\ cubelet \in Cubelets
    /\ InitLocals

InitFov ==
    /\ surveys0 \in FovSurveyLists
    /\ outcome = [s \in Range(surveys0) |-> "ok"]
    /\ products = ProductFiles
    /\ existing = {}
    /\ source \in Boxes
    /\ cube_params \in [cellsize : CellSizes]
    /\ cubelet \in Cubelets
    /\ InitLocals

\* main is called again for the same source with the same arguments: the
\* caller passes the list object of the first call or an equal new list, the
\* product files are as they were, the figure files are those on disk, and
\* the archives answer anew
Rerun ==
    /\ run = 1
    /\ pc \in {"done", "returned", "raised"}
    /\ run' = 2
    /\ outcome1' = outcome
    /\ outcome' \in Outcomes(surveys0)
    /\ surveys' \in {surveys, surveys0}
    /\ existing' = figures
    /\ pc' = "contour"
    /\ written' = {}
    /\ contours' = <<>>
    /\ fetched' = <<>>
    /\ HIlowest' = 0
    /\ opt_view' = DefaultOptView
    /\ opt_head' = None
    /\ i' = 1
    /\ mom1_image' = <<>>
    /\ UNCHANGED <<surveys0, products, figures, source, cube_params, cubelet>>

NextRerun ==
    \/ Next
    \/ Rerun

InitRerun ==
    /\ surveys0 \in SurveyLists(MaxSurveys)
    /\ outcome \in Outcomes(surveys0)
    /\ products \in SUBSET ProductFiles
    /\ existing = {}
    /\ source = Box(0, 1, 2, 0, 1, 2)
    /\ cube_params = [cellsize |-> 10]
    /\ cubelet \in Cubelets
    /\ InitLocals

InitPixels ==
    /\ surveys0 \in FovSurveyLists
    /\ outcome = [s \in Range(surveys0) |-> "ok"]
    /\ products = ProductFiles
    /\ existing = {}
    /\ source = Box(0, 1, 2, 0, 1, 2)
    /\ cube_params = [cellsize |-> 10]
    /\ cubelet \in PixelCubelets
    /\ InitLocals

Spec == Init /\ [][Next]_vars
SpecFov == InitFov /\ [][Next]_vars
SpecRerun == InitRerun /\ [][NextRerun]_vars
SpecPixels == InitPixels /\ [][Next]_vars

TypeOK ==
    /\ pc \in {"contour", "fov", "hst", "panstarrs", "decals", "skyview", "grid",
               "mom0hi", "snr", "mom1", "pv", "done", "returned", "raised"}
    /\ Range(surveys) \subseteq Range(surveys0)
    /\ written \subseteq figures
    /\ opt_head \in SurveyNames \cup {None}

(***************************************************************************)
(* Properties                                                              *)
(***************************************************************************)
Terminated == pc \in {"done", "returned", "raised"}
Resolved == pc \in {"grid", "mom0hi", "snr", "mom1", "pv", "done"}
WasFetched(s) == \E k \in 1..Len(fetched) : fetched[k].survey = s

\* C1: when the survey that is first in the caller's list yields an image,
\* the primary grid at the point where the grid-dependent figures are made is
\* the header of that survey; no later survey's header has taken its place.
C1_PrimaryGridIsFirstInList ==
    (pc = "grid" /\ surveys0 # <<>> /\ outcome[surveys0[1]] = "ok")
        => opt_head = surveys0[1]

\* every fetch of the run is one of get_ancillary.py (get_panstarrs,
\* get_decals, get_skyview)
AncillaryOnly == "hst" \notin Range(surveys0)

\* C2: a failed fetch skips only its own survey: main never leaves with an
\* exception, and when it is done every requested survey has been fetched and
\* every survey that answered with an image has its overlay on disk (stated
\* for the lists whose fetches are all in get_ancillary.py).
C2_FailedFetchSkipsOnlyThatSurvey ==
    AncillaryOnly
        => /\ pc # "raised"
           /\ pc = "done" =>
                 \A s \in Range(surveys0) :
                     /\ WasFetched(s)
                     /\ outcome[s] = "ok" => OverlayFile(s) \in figures

\* no image because the archive does not cover the position
NoCoverage(s) == outcome[s] = "none" \/ (s = "decals" /\ outcome[s] = "http")

\* C3: first survey of the list without coverage, second with an image: main
\* completes, the primary grid is the header of the second survey and no
\* overlay is written for the first.
C3_FallbackToSecondSurvey ==
    (/\ Len(surveys0) >= 2
     /\ AncillaryOnly
     /\ NoCoverage(surveys0[1])
     /\ outcome[surveys0[2]] = "ok"
     /\ "snr" \in products /\ "mom0" \in products)
        => /\ pc # "raised"
           /\ Resolved => opt_head = surveys0[2]
           /\ OverlayFile(surveys0[1]) \notin written

\* C4: when no requested survey yields an image (the empty list included),
\* main runs to completion with the primary grid unset and writes none of
\* mom0hi, snr, mom1.
C4_NoImageNoGridFigures ==
    (/\ \A s \in Range(surveys0) : outcome[s] # "ok"
     /\ AncillaryOnly
     /\ "snr" \in products /\ "mom0" \in products)
        => /\ pc # "raised"
           /\ Resolved => opt_head = None
           /\ written \cap GridFiles = {}

\* C5: when the snr or the mom0 product file is absent, main halts at the
\* base contour: no survey is fetched and no figure of any kind is written.
C5_MissingContourInputHalts ==
    ("snr" \notin products \/ "mom0" \notin products)
        => /\ pc \in {"contour", "returned"}
           /\ fetched = <<>>
           /\ written = {}
           /\ figures = existing

C5_Witness ==
    /\ pc = "returned"
    /\ "snr" \in products /\ "mom0" \notin products
    /\ "pv" \in products /\ "pv" \notin existing
    /\ surveys0 # <<>>

\* C6: whenever the pv product exists and the pv figure does not, a run of
\* main for a source whose snr and mom0 products exist has written the pv
\* figure when it ends, whatever the surveys answered.
C6_PvAlwaysWritten ==
    (/\ Terminated
     /\ AncillaryOnly
     /\ "pv" \in products /\ "pv" \notin existing
     /\ "snr" \in products /\ "mom0" \in products)
        => "pv" \in written

\* C7: every figure that draws intensity contours draws levels of the ladder
\* {C, 2C, 4C, ..., 512C} of the one base contour C of the run.
C7_Ladder(C) == {C, 2 * C, 4 * C, 8 * C, 16 * C, 32 * C, 64 * C, 128 * C, 256 * C, 512 * C}

C7_SingleContourLadder ==
    \A f \in DOMAIN contours :
        /\ contours[f] # {}
        /\ contours[f] \subseteq C7_Ladder(HIlowest)
        /\ HIlowest \in contours[f]

C7_Witness ==
    /\ pc = "done"
    /\ {"mom0hi", "snr", "mom0panstarrs", "mom0dss2blue"} \subseteq DOMAIN contours
    /\ HIlowest = 8

\* C8: with E the largest pixel-to-center distance over both axes as an
\* angle, the field of view main computes is the default when E <= default/2
\* and 2 * E * 1.05 otherwise (E = 2 arcmin gives 6 arcmin, E = 5 arcmin
\* gives 10.5 arcmin); main keeps it unless hst is first in the list.
C8_E ==
    cube_params.cellsize * Max({source.x_max - source.x, source.x - source.x_min,
                                source.y_max - source.y, source.y - source.y_min})

C8_Expected ==
    IF 2 * C8_E <= DefaultOptView THEN DefaultOptView ELSE (C8_E * 21) \div 10

C8_FieldOfView ==
    /\ pc = "hst" => opt_view = C8_Expected
    /\ (pc \notin {"contour", "fov", "returned"} /\ (surveys0 = <<>> \/ surveys0[1] # "hst"))
           => opt_view = C8_Expected
    /\ (pc = "hst" /\ C8_E = 120) => opt_view = 360
    /\ (pc = "hst" /\ C8_E = 300) => opt_view = 630

C8_Witness ==
    /\ pc = "hst"
    /\ C8_E = 300
    /\ opt_view = 630
    /\ source.x_max - source.x = 0 /\ source.x - source.x_min = 0

\* a pixel-to-center distance is negative: the center is outside [min, max]
C9_InvalidExtent ==
    \/ source.x < source.x_min \/ source.x > source.x_max
    \/ source.y < source.y_min \/ source.y > source.y_max

\* C9: a bounding box with an invalid extent stops main at the field of view:
\* no survey is fetched and no figure is written.
C9_InvalidExtentIsFatal ==
    C9_InvalidExtent
        => /\ pc \in {"contour", "fov", "returned", "raised"}
           /\ fetched = <<>>
           /\ written = {}

\* what a figure needs, apart from its own output file being absent
C10_InputsReady(f) ==
    CASE f \in {"mom0hi", "snr"} -> opt_head # None
      [] f = "mom1" -> opt_head # None /\ "mom1" \in products
      [] f = "pv" -> "pv" \in products
      [] OTHER -> \E s \in Range(surveys0) : OverlayFile(s) = f /\ outcome[s] = "ok"

\* C10: a figure file that exists when main is called is never written, and
\* when main is done every other figure whose inputs are there has been
\* written, whichever figure files existed.
C10_ExistingFigureNotOverwritten ==
    /\ written \cap existing = {}
    /\ pc = "done" =>
          \A f \in FigureFiles(surveys0) \ existing :
              C10_InputsReady(f) => f \in written

C10_Witness ==
    /\ pc = "done"
    /\ existing = {"mom0hi"}
    /\ {"snr", "mom1", "pv", "mom0decals"} \subseteq written

\* C11 as stated: a second call of main for the same source, with the same
\* arguments and the product files unchanged, saves no figure.
C11_SecondRunWritesNothing ==
    (run = 2 /\ AncillaryOnly) => written = {}

\* C11 as amended: a second call in which every archive answers as it did in
\* the first call saves no figure.
C11_SecondRunSameAnswersWritesNothing ==
    (run = 2 /\ outcome = outcome1) => written = {}

C11_Witness ==
    /\ run = 2
    /\ outcome = outcome1
    /\ pc = "done"
    /\ {"mom0panstarrs", "mom0hi", "snr", "mom1", "pv"} \subseteq existing
    /\ Len(fetched) > 0
    /\ opt_head = "panstarrs"

\* C12: in the velocity map that make_mom1 draws, every pixel of the primary
\* grid whose co-registered intensity is below the base contour is NaN, and
\* every pixel inside the footprint whose co-registered intensity is at least
\* the base contour keeps its velocity (in km/s).
C12_VelocityMapInvalidation ==
    "mom1" \in written =>
        \A p \in 1..Len(cubelet.onto) :
            LET q == cubelet.onto[p]
            IN  /\ (q # 0 /\ cubelet.mom0[q] < HIlowest) => mom1_image[p].nan
                /\ (q # 0 /\ cubelet.mom0[q] >= HIlowest)
                       => /\ ~mom1_image[p].nan
                          /\ 1000 * mom1_image[p].v = cubelet.mom1[q]

C12_Witness ==
    /\ "mom1" \in written
    /\ \E p \in 1..Len(cubelet.onto) :
          cubelet.onto[p] # 0 /\ cubelet.mom0[cubelet.onto[p]] < HIlowest
    /\ \E p \in 1..Len(cubelet.onto) :
          cubelet.onto[p] # 0 /\ cubelet.mom0[cubelet.onto[p]] = HIlowest

\* pixels whose significance s satisfies 2 < s < 3
C13_InBand == {k \in 1..Len(cubelet.snr) : cubelet.snr[k] > 20 /\ cubelet.snr[k] < 30}

\* the h-th smallest intensity among the pixels in the band
C13_Rank(h) ==
    CHOOSE v \in {cubelet.mom0[k] : k \in C13_InBand} :
        /\ Cardinality({k \in C13_InBand : cubelet.mom0[k] < v}) < h
        /\ Cardinality({k \in C13_InBand : cubelet.mom0[k] <= v}) >= h

C13_Median ==
    LET n == Cardinality(C13_InBand)
    IN  (C13_Rank((n + 1) \div 2) + C13_Rank(n \div 2 + 1)) \div 2

\* C13: once computed, the base contour is the median of the intensities at
\* exactly the pixels with 2 < s < 3; it keeps that value for the rest of the
\* run and every figure with intensity contours is drawn from it.
C13_BaseContourIsBandMedian ==
    /\ pc \notin {"contour", "returned"} => HIlowest = C13_Median
    /\ \A f \in DOMAIN contours : C13_Median \in contours[f]

C13_Witness ==
    /\ pc = "done"
    /\ \E k \in 1..Len(cubelet.snr) : cubelet.snr[k] \in {20, 30}
    /\ HIlowest = C13_Median
    /\ {"mom0hi", "snr"} \subseteq DOMAIN contours

\* C14: a run of main leaves the caller's survey list as it was passed, so
\* that the next call with that list requests the same surveys.
C14_SurveyListUnchanged ==
    pc = "done" => surveys = surveys0

\* C15 as stated: the base contour is computed only after the field of view
\* and the ancillary resolution: it is not yet computed while main is at the
\* field of view or at a survey step.
C15_ContourAfterAncillary ==
    pc \in {"fov", "hst", "panstarrs", "decals", "skyview"} => HIlowest = 0

\* the steps of main in the order of the code
C15_Step ==
    { <<"contour", "fov">>, <<"contour", "returned">>, <<"fov", "hst">>,
      <<"hst", "panstarrs">>, <<"hst", "raised">>,
      <<"panstarrs", "decals">>, <<"panstarrs", "raised">>,
      <<"decals", "skyview">>, <<"decals", "raised">>,
      <<"skyview", "skyview">>, <<"skyview", "raised">>, <<"skyview", "grid">>,
      <<"grid", "mom0hi">>, <<"grid", "pv">>,
      <<"mom0hi", "snr">>, <<"snr", "mom1">>, <<"mom1", "pv">>,
      <<"pv", "done">> }

C15_InOrder == (<<pc, pc'>>) \in C15_Step

\* C15 as amended: the steps of a run occur in the order base contour, field
\* of view, ancillary images, grid-dependent products registered or skipped,
\* position-velocity figure, done (a run that returns at the base contour or
\* raises in a survey step stops there); the base contour is computed before
\* the field of view and before any survey is fetched, and the grid figures
\* and the pv figure are written only after the survey steps.
C15_StepOrder ==
    /\ [][C15_InOrder]_vars
    /\ [](pc \in {"fov", "hst", "panstarrs", "decals", "skyview"}
             => /\ HIlowest # 0
                /\ written \cap (GridFiles \cup {"pv"}) = {})
    /\ [](pc \in {"contour", "fov"} => fetched = <<>>)

C15_Witness ==
    /\ pc = "done"
    /\ Len(fetched) = 2
    /\ {"mom0hi", "pv"} \subseteq written

\* the field of view of the Field-of-View Calculator and the one of hst
C16_Fov == IF 2 * C8_E <= DefaultOptView THEN DefaultOptView ELSE (C8_E * 21) \div 10
C16_HstFov == IF 2 * C8_E <= 40 THEN 40 ELSE (C8_E * 21) \div 10

\* C16 as stated: every fetch of a survey other than hst is requested with
\* the field of view of the calculator, whatever the list and its order; the
\* hst fetch with the hst field of view.
C16_SharedFieldOfView ==
    \A k \in 1..Len(fetched) :
        fetched[k].view = IF fetched[k].survey = "hst" THEN C16_HstFov ELSE C16_Fov

\* C16 as amended: every fetch of a survey other than hst is requested with
\* the field of view of the calculator, unless hst is first in the list: then
\* it is requested with the hst field of view; the hst fetch is always
\* requested with the hst field of view.
C16_SharedFieldOfViewUnlessHstFirst ==
    \A k \in 1..Len(fetched) :
        fetched[k].view = IF fetched[k].survey = "hst" \/ surveys0[1] = "hst"
                          THEN C16_HstFov ELSE C16_Fov

C16_Witness ==
    /\ pc = "done"
    /\ Len(fetched) = 2
    /\ surveys0[1] = "hst"
    /\ fetched[2].survey = "DSS2 Blue"
    /\ fetched[2].view = 40
    /\ C16_Fov = 360
====
